---- MODULE Spec2Model ----
(***************************************************************************)
(* Model of LULC_Prediction_2033_code.js: the land-cover change script.    *)
(* The script is one linear pass: legend, load the 2014 and 2024 rasters,  *)
(* show them, encode the pairwise transition raster and its label lists,   *)
(* mask and show the change map, print the change dictionary, assemble the *)
(* training image, sample and split, train, evaluate, assemble the         *)
(* forecast image, classify, aggregate the areas per class and year, and   *)
(* chart them.                                                             *)
(*                                                                         *)
(* A raster is a function from Cells to integer band values; NoData is the *)
(* value of a masked cell.  Random numbers of randomColumn are counted in  *)
(* tenths (0.8 is 8).  Pixel areas are in square metres.                   *)
(***************************************************************************)
EXTENDS Integers, Sequences, FiniteSets, TLC

VARIABLES
    K,                \* size of the class catalog (values, names, palette)
    lulc2014,         \* asset .../2014: Cells -> class code
    lulc2024,         \* asset .../2024: Cells -> class code
    srtm,             \* elevation raster: Cells -> elevation
    pc,               \* the statement the script is at
    legendShown,      \* the legend panel has been added to the map
    layers,           \* Map.addLayer calls so far: <<[label, image]>>
    printed,          \* print calls so far: the printed titles
    lulcList,         \* <<[year, image]>>
    index1,           \* position of the outer values.map
    index2,           \* position of the inner values.map
    changeValues,     \* list of encoded transition values
    changeNames,      \* list of transition labels
    changeMap,        \* the transition raster
    variables,        \* training feature image: Cells -> band record
    sample,           \* sampled records with the random column
    train,            \* records with random <= 0.8
    test,             \* records with random > 0.8
    model,            \* the trained classifier: the set of labels it learnt
    variables2025,    \* forecast feature image: Cells -> band record
    lulc2033,         \* predicted raster
    lulcAreafeatures  \* flattened area records of all epochs

vars == <<K, lulc2014, lulc2024, srtm, pc, legendShown, layers, printed,
          lulcList, index1, index2, changeValues, changeNames, changeMap,
          variables, sample, train, test, model, variables2025, lulc2033,
          lulcAreafeatures>>

---------------------------------------------------------------------------
(* Bounds of the model and constants of the program.                       *)

\* number of raster cells of the region of interest
NumCells == 2

Cells == 1..NumCells

\* the multiplier of the transition encoding (1e2)
Base == 100

\* the threshold of the train/test split, 0.8, in tenths
SplitThreshold == 8

\* numPoints of stratifiedSample: samples drawn per transition class
NumPoints == 3000

\* square metres per hectare: pixelArea().divide(10000)
HectareDivisor == 10000

\* the value of a masked cell
NoData == -1

\* the names literal of the script
ProgramNames ==
    <<"Waterbody", "Dense forest", "Agriculture land", "Range land",
      "Builtup", "Barren land">>

\* the catalog of the script has Len(ProgramNames) classes
ProgramK == Len(ProgramNames)

\* values of the catalog of size k: the codes 1..k in legend order
values(k) == [i \in 1..k |-> i]

\* names of the catalog of size k; a catalog larger than the script's
\* literal continues with generated names
names(k) ==
    [i \in 1..k |-> IF i <= ProgramK THEN ProgramNames[i]
                    ELSE "Class " \o ToString(i)]

\* the random column draws from [0,1): the least value, the threshold and
\* the first value above it, in tenths
RandomValues == {0, SplitThreshold, SplitThreshold + 1}

\* the elevation rasters tried: flat, and rising with the cell number
ElevationRasters == {[c \in Cells |-> 0], [c \in Cells |-> c]}

\* ee.Image.pixelArea(): the area of cell c in square metres
pixelArea(c) == HectareDivisor * c

\* a constant image, ee.Image(v)
ConstImage(v) == [c \in Cells |-> v]

---------------------------------------------------------------------------
(* The pure operations of the script.                                      *)

\* Encode with the multiplier 10 in place of 1e2
EncodeBase10(value1, value2) == value1 * 10 + value2

\* var changeValue = value1 * 1e2 + value2
Encode(value1, value2) == value1 * Base + value2

\* ChangeName with the two names in the wrong order
ChangeNameSwapped(k, i1, i2) == names(k)[i2 + 1] \o " -> " \o names(k)[i1 + 1]

\* var changeName = names[index1] + ' -> ' + names[index2]
\* (index1 and index2 are the zero-based positions of values.map)
ChangeName(k, i1, i2) == names(k)[i1 + 1] \o " -> " \o names(k)[i2 + 1]

\* EqAnd with or in place of and
EqAndOr(from, to, value1, value2) ==
    [c \in Cells |-> IF from[c] = value1 \/ to[c] = value2 THEN 1 ELSE 0]

\* image.eq(value1).and(image.eq(value2)): 1 where both hold, else 0
EqAnd(from, to, value1, value2) ==
    [c \in Cells |-> IF from[c] = value1 /\ to[c] = value2 THEN 1 ELSE 0]

\* img.where(cond, value): value where cond is nonzero, img elsewhere
Where(img, cond, value) ==
    [c \in Cells |-> IF cond[c] # 0 THEN value ELSE img[c]]

\* img.selfMask(): cells holding 0 become masked
SelfMask(img) ==
    [c \in Cells |-> IF img[c] = 0 THEN NoData ELSE img[c]]

\* YearBand with eq in place of neq
YearBandEq(year, a, b) ==
    [c \in Cells |-> year * (IF a[c] = b[c] THEN 1 ELSE 0)]

\* ee.Image(year).multiply(a.neq(b))
YearBand(year, a, b) ==
    [c \in Cells |-> year * (IF a[c] # b[c] THEN 1 ELSE 0)]

\* String(value) of an integer-valued number
String(value) == ToString(value)

\* ee.Dictionary.fromLists(keys, vals): the keys are changeValues as
\* strings; of two equal keys the later entry stands
FromLists(keyList, valList) ==
    [key \in {keyList[i] : i \in 1..Len(keyList)} |->
        LET last == CHOOSE i \in 1..Len(keyList) :
                        /\ keyList[i] = key
                        /\ \A j \in (i + 1)..Len(keyList) : keyList[j] # key
        IN  valList[last]]

\* var changeDict = ee.Dictionary.fromLists(changeValues.map(String), changeNames)
changeDict ==
    FromLists([i \in 1..Len(changeValues) |-> String(changeValues[i])],
              changeNames)

\* the cells of a set in ascending order, as a sequence
RECURSIVE SortedSeq(_)
SortedSeq(S) ==
    IF S = {} THEN <<>>
    ELSE LET m == CHOOSE x \in S : \A y \in S : x <= y
         IN  <<m>> \o SortedSeq(S \ {m})

\* sum of f[x] over the set S
RECURSIVE SumOver(_, _)
SumOver(f, S) ==
    IF S = {} THEN 0
    ELSE LET x == CHOOSE y \in S : TRUE
         IN  f[x] + SumOver(f, S \ {x})

\* the training feature image: bands start, end, transition, elevation, year
TrainImage(from, to, transition, elevation) ==
    [c \in Cells |->
        [start      |-> from[c],
         end        |-> to[c],
         transition |-> transition[c],
         elevation  |-> elevation[c],
         year       |-> YearBand(2024, from, to)[c]]]

\* ForecastImage with the 2014 raster left as the start band
ForecastImageOldStart(from, to, transition, elevation) ==
    [c \in Cells |->
        [start      |-> from[c],
         transition |-> transition[c],
         elevation  |-> elevation[c],
         year       |-> YearBand(2033, to, from)[c]]]

\* the forecast feature image: bands start, transition, elevation, year
ForecastImage(from, to, transition, elevation) ==
    [c \in Cells |->
        [start      |-> to[c],
         transition |-> transition[c],
         elevation  |-> elevation[c],
         year       |-> YearBand(2033, to, from)[c]]]

\* a cell is sampled only where no band of the image is masked
Unmasked(img, c) ==
    \A b \in DOMAIN img[c] : img[c][b] # NoData

\* stratifiedSample: from each class of the class band, numPoints cells,
\* or all of them when the class has fewer
IsStratified(img, S) ==
    /\ S \subseteq {c \in Cells : Unmasked(img, c)}
    /\ \A c \in Cells : Unmasked(img, c) =>
          LET class == {d \in Cells : Unmasked(img, d)
                                      /\ img[d].transition = img[c].transition}
          IN  Cardinality(S \cap class) =
                 (IF Cardinality(class) <= NumPoints
                    THEN Cardinality(class) ELSE NumPoints)

\* sample.filter(ee.Filter.lte('random', 0.8))
FilterLte(coll, threshold) == SelectSeq(coll, LAMBDA r : r.random <= threshold)

\* FilterGt with gte in place of gt
FilterGte(coll, threshold) == SelectSeq(coll, LAMBDA r : r.random >= threshold)

\* sample.filter(ee.Filter.gt('random', 0.8))
FilterGt(coll, threshold) == SelectSeq(coll, LAMBDA r : r.random > threshold)

\* ee.List(list).get(index): zero-based
ListGet(list, index) == list[index + 1]

\* Groups without the division by 10000: the areas stay in square metres
GroupsSquareMetres(image) ==
    LET classes == {image[c] : c \in Cells} \ {NoData}
        metres == [c \in Cells |-> pixelArea(c)]
    IN  [i \in 1..Cardinality(classes) |->
            LET cl == SortedSeq(classes)[i]
            IN  [class |-> cl,
                 area  |-> SumOver(metres, {c \in Cells : image[c] = cl})]]

\* imageArea.addBands(image).reduceRegion(sum grouped by class): one group
\* per class present, in ascending class order, with the summed hectares
Groups(image) ==
    LET classes == {image[c] : c \in Cells} \ {NoData}
        hectares == [c \in Cells |-> pixelArea(c) \div HectareDivisor]
    IN  [i \in 1..Cardinality(classes) |->
            LET cl == SortedSeq(classes)[i]
            IN  [class |-> cl,
                 area  |-> SumOver(hectares, {c \in Cells : image[c] = cl})]]

\* the features of one epoch: each group with its year and its label
Features(k, dict) ==
    LET groups == Groups(dict.image)
    IN  [i \in 1..Len(groups) |->
            [class |-> groups[i].class,
             area  |-> groups[i].area,
             year  |-> dict.year,
             LULC  |-> ListGet(names(k), groups[i].class - 1)]]

\* ee.FeatureCollection(lulcList.map(...)).flatten()
RECURSIVE Flatten(_, _)
Flatten(k, list) ==
    IF list = <<>> THEN <<>>
    ELSE Features(k, Head(list)) \o Flatten(k, Tail(list))

---------------------------------------------------------------------------
(* The state before the first statement.                                   *)

\* nothing has been computed yet
Blank ==
    /\ pc = "legend"
    /\ legendShown = FALSE
    /\ layers = <<>>
    /\ printed = <<>>
    /\ lulcList = <<>>
    /\ index1 = 0
    /\ index2 = 0
    /\ changeValues = <<>>
    /\ changeNames = <<>>
    /\ changeMap = ConstImage(0)
    /\ variables = <<>>
    /\ sample = <<>>
    /\ train = <<>>
    /\ test = <<>>
    /\ model = {}
    /\ variables2025 = <<>>
    /\ lulc2033 = <<>>
    /\ lulcAreafeatures = <<>>

\* the class codes the input rasters draw from: the first two classes and
\* the last class of the catalog of size k
RasterCodes(k) == {1, 2, k}

\* the script as written: its six-class catalog, any two rasters over the
\* raster codes, one of the elevation rasters
Init ==
    /\ K = ProgramK
    /\ lulc2014 \in [Cells -> RasterCodes(K)]
    /\ lulc2024 \in [Cells -> RasterCodes(K)]
    /\ srtm \in ElevationRasters
    /\ Blank

\* catalog sizes around the limit of the encoding, besides small ones
CatalogSizes == {2, ProgramK, Base - 1, Base, Base + 1}

\* the script with its catalog literals replaced by a catalog of another
\* size: the first cell goes from class 1 to the last class, the others
\* from class 2 to class 1
InitCatalog ==
    /\ K \in CatalogSizes
    /\ lulc2014 = [c \in Cells |-> IF c = 1 THEN 1 ELSE 2]
    /\ lulc2024 = [c \in Cells |-> IF c = 1 THEN K ELSE 1]
    /\ srtm = [c \in Cells |-> c]
    /\ Blank

---------------------------------------------------------------------------
(* The statements of the script, in order.                                 *)

\* legend(palette, values, names)
ShowLegend ==
    /\ pc = "legend"
    /\ legendShown' = TRUE
    /\ pc' = "load"
    /\ UNCHANGED <<K, lulc2014, lulc2024, srtm, layers, printed, lulcList,
                   index1, index2, changeValues, changeNames, changeMap,
                   variables, sample, train, test, model, variables2025,
                   lulc2033, lulcAreafeatures>>

\* lulc2014 = ee.Image(...); lulc2024 = ee.Image(...); roi; lulcList
Load ==
    /\ pc = "load"
    /\ lulcList' = <<[year |-> 2014, image |-> lulc2014],
                     [year |-> 2024, image |-> lulc2024]>>
    /\ pc' = "layers"
    /\ UNCHANGED <<K, lulc2014, lulc2024, srtm, legendShown, layers, printed,
                   index1, index2, changeValues, changeNames, changeMap,
                   variables, sample, train, test, model, variables2025,
                   lulc2033, lulcAreafeatures>>

\* AddLayer that replaces the layers shown so far
AddLayerReplacing(list, label, image) == <<[label |-> label, image |-> image]>>

\* Map.addLayer(image, params, label)
AddLayer(list, label, image) == Append(list, [label |-> label, image |-> image])

\* lulcList.map(function(dict){ Map.addLayer(dict.image..., 'LULC ' + dict.year) })
ShowLayers ==
    /\ pc = "layers"
    /\ layers' = AddLayer(AddLayer(layers,
                     "LULC " \o String(lulcList[1].year), lulcList[1].image),
                     "LULC " \o String(lulcList[2].year), lulcList[2].image)
    /\ index1' = 0
    /\ index2' = 0
    /\ pc' = "encode"
    /\ UNCHANGED <<K, lulc2014, lulc2024, srtm, legendShown, printed, lulcList,
                   changeValues, changeNames, changeMap, variables, sample,
                   train, test, model, variables2025, lulc2033,
                   lulcAreafeatures>>

\* one call of the inner function of values.map(... values.map(...)), for
\* the pair at the positions index1, index2
EncodeStep ==
    /\ pc = "encode"
    /\ LET value1 == values(K)[index1 + 1]
           value2 == values(K)[index2 + 1]
           changeValue == Encode(value1, value2)
           changeName == ChangeName(K, index1, index2)
       IN  /\ changeValues' = Append(changeValues, changeValue)
           /\ changeNames' = Append(changeNames, changeName)
           /\ changeMap' = Where(changeMap,
                                 EqAnd(lulcList[1].image, lulcList[2].image,
                                       value1, value2),
                                 changeValue)
    /\ IF index2 + 1 < K
         THEN /\ index2' = index2 + 1
              /\ UNCHANGED <<index1, pc>>
         ELSE IF index1 + 1 < K
                THEN /\ index1' = index1 + 1
                     /\ index2' = 0
                     /\ UNCHANGED pc
                ELSE /\ pc' = "mask"
                     /\ UNCHANGED <<index1, index2>>
    /\ UNCHANGED <<K, lulc2014, lulc2024, srtm, legendShown, layers, printed,
                   lulcList, variables, sample, train, test, model,
                   variables2025, lulc2033, lulcAreafeatures>>

\* changeMap = changeMap.selfMask(); Map.addLayer(changeMap, ...,
\* 'Land cover change map')
ShowChangeMap ==
    /\ pc = "mask"
    /\ changeMap' = SelfMask(changeMap)
    /\ layers' = AddLayer(layers, "Land cover change map", changeMap')
    /\ pc' = "dict"
    /\ UNCHANGED <<K, lulc2014, lulc2024, srtm, legendShown, printed, lulcList,
                   index1, index2, changeValues, changeNames, variables,
                   sample, train, test, model, variables2025, lulc2033,
                   lulcAreafeatures>>

\* var changeDict = ...; print('Land cover change values', changeDict)
PrintChangeDict ==
    /\ pc = "dict"
    /\ printed' = Append(printed, "Land cover change values")
    /\ pc' = "assemble"
    /\ UNCHANGED <<K, lulc2014, lulc2024, srtm, legendShown, layers, lulcList,
                   index1, index2, changeValues, changeNames, changeMap,
                   variables, sample, train, test, model, variables2025,
                   lulc2033, lulcAreafeatures>>

\* var variables = ee.Image([...])
AssembleTrain ==
    /\ pc = "assemble"
    /\ variables' = TrainImage(lulc2014, lulc2024, changeMap, srtm)
    /\ pc' = "sample"
    /\ UNCHANGED <<K, lulc2014, lulc2024, srtm, legendShown, layers, printed,
                   lulcList, index1, index2, changeValues, changeNames,
                   changeMap, sample, train, test, model, variables2025,
                   lulc2033, lulcAreafeatures>>

\* var sample = variables.stratifiedSample({...}).randomColumn()
Sample ==
    /\ pc = "sample"
    /\ \E S \in SUBSET Cells :
          /\ IsStratified(variables, S)
          /\ \E random \in [S -> RandomValues] :
                sample' = [i \in 1..Cardinality(S) |->
                             LET c == SortedSeq(S)[i]
                             IN  [start      |-> variables[c].start,
                                  end        |-> variables[c].end,
                                  transition |-> variables[c].transition,
                                  elevation  |-> variables[c].elevation,
                                  year       |-> variables[c].year,
                                  random     |-> random[c]]]
    /\ pc' = "split"
    /\ UNCHANGED <<K, lulc2014, lulc2024, srtm, legendShown, layers, printed,
                   lulcList, index1, index2, changeValues, changeNames,
                   changeMap, variables, train, test, model, variables2025,
                   lulc2033, lulcAreafeatures>>

\* var train = ...; var test = ...; print('Sample train: n', 'Sample test: m')
Split ==
    /\ pc = "split"
    /\ train' = FilterLte(sample, SplitThreshold)
    /\ test' = FilterGt(sample, SplitThreshold)
    /\ printed' = printed \o <<"Sample train: " \o String(Len(train')),
                               "Sample test: " \o String(Len(test'))>>
    /\ pc' = "train"
    /\ UNCHANGED <<K, lulc2014, lulc2024, srtm, legendShown, layers, lulcList,
                   index1, index2, changeValues, changeNames, changeMap,
                   variables, sample, model, variables2025, lulc2033,
                   lulcAreafeatures>>

\* var model = ee.Classifier.smileRandomForest(50).train(train, 'end',
\* propNames): the classifier answers with labels it was trained on
Train ==
    /\ pc = "train"
    /\ train # <<>>
    /\ model' = {train[i].end : i \in 1..Len(train)}
    /\ pc' = "evaluate"
    /\ UNCHANGED <<K, lulc2014, lulc2024, srtm, legendShown, layers, printed,
                   lulcList, index1, index2, changeValues, changeNames,
                   changeMap, variables, sample, train, test, variables2025,
                   lulc2033, lulcAreafeatures>>

\* var cm = test.classify(model, 'prediction').errorMatrix(...); print(...)
Evaluate ==
    /\ pc = "evaluate"
    /\ printed' = printed \o <<"Confusion matrix", "Accuracy: ", "Kappa: ">>
    /\ pc' = "assemble2"
    /\ UNCHANGED <<K, lulc2014, lulc2024, srtm, legendShown, layers, lulcList,
                   index1, index2, changeValues, changeNames, changeMap,
                   variables, sample, train, test, model, variables2025,
                   lulc2033, lulcAreafeatures>>

\* var variables2025 = ee.Image([...])
AssembleForecast ==
    /\ pc = "assemble2"
    /\ variables2025' = ForecastImage(lulc2014, lulc2024, changeMap, srtm)
    /\ pc' = "predict"
    /\ UNCHANGED <<K, lulc2014, lulc2024, srtm, legendShown, layers, printed,
                   lulcList, index1, index2, changeValues, changeNames,
                   changeMap, variables, sample, train, test, model,
                   lulc2033, lulcAreafeatures>>

\* var lulc2033 = variables2025.classify(model, 'LULC'); Map.addLayer(...)
Predict ==
    /\ pc = "predict"
    /\ \E prediction \in [Cells -> model] :
          lulc2033' = [c \in Cells |-> IF Unmasked(variables2025, c)
                                         THEN prediction[c] ELSE NoData]
    /\ layers' = AddLayer(layers, "LULC 2033 Prediction", lulc2033')
    /\ pc' = "areas"
    /\ UNCHANGED <<K, lulc2014, lulc2024, srtm, legendShown, printed, lulcList,
                   index1, index2, changeValues, changeNames, changeMap,
                   variables, sample, train, test, model, variables2025,
                   lulcAreafeatures>>

\* lulcList.push({year: 2033, image: lulc2033}); var lulcAreafeatures = ...
AggregateAreas ==
    /\ pc = "areas"
    /\ lulcList' = Append(lulcList, [year |-> 2033, image |-> lulc2033])
    /\ lulcAreafeatures' = Flatten(K, lulcList')
    /\ pc' = "chart"
    /\ UNCHANGED <<K, lulc2014, lulc2024, srtm, legendShown, layers, printed,
                   index1, index2, changeValues, changeNames, changeMap,
                   variables, sample, train, test, model, variables2025,
                   lulc2033>>

\* var chartArea = ui.Chart.feature.groups(...); print(chartArea)
Chart ==
    /\ pc = "chart"
    /\ printed' = Append(printed, "LULC area changes 2014 - 2024 - 2033")
    /\ pc' = "done"
    /\ UNCHANGED <<K, lulc2014, lulc2024, srtm, legendShown, layers, lulcList,
                   index1, index2, changeValues, changeNames, changeMap,
                   variables, sample, train, test, model, variables2025,
                   lulc2033, lulcAreafeatures>>

\* the statements that call the platform: load, sample, train, classify, reduce
ExternalCalls == {"load", "sample", "train", "predict", "areas"}

\* a call of the platform throws: nothing catches it, the script ends there
Fail ==
    /\ pc \in ExternalCalls
    /\ pc' = "aborted"
    /\ UNCHANGED <<K, lulc2014, lulc2024, srtm, legendShown, layers, printed,
                   lulcList, index1, index2, changeValues, changeNames,
                   changeMap, variables, sample, train, test, model,
                   variables2025, lulc2033, lulcAreafeatures>>

Next ==
    \/ ShowLegend
    \/ Load
    \/ ShowLayers
    \/ EncodeStep
    \/ ShowChangeMap
    \/ PrintChangeDict
    \/ AssembleTrain
    \/ Sample
    \/ Split
    \/ Train
    \/ Evaluate
    \/ AssembleForecast
    \/ Predict
    \/ AggregateAreas
    \/ Chart
    \/ Fail

Spec == Init /\ [][Next]_vars

SpecCatalog == InitCatalog /\ [][Next]_vars

---------------------------------------------------------------------------
(* The position of the script, for the properties below.                   *)

Statements ==
    <<"legend", "load", "layers", "encode", "mask", "dict", "assemble",
      "sample", "split", "train", "evaluate", "assemble2", "predict",
      "areas", "chart", "done">>

\* the statements after statement p, in program order
After(p) ==
    LET at == CHOOSE i \in 1..Len(Statements) : Statements[i] = p
    IN  {Statements[j] : j \in (at + 1)..Len(Statements)}

\* the layer with the given label, among those added so far
LayerImage(label) ==
    LET at == CHOOSE i \in 1..Len(layers) : layers[i].label = label
    IN  layers[at].image

---------------------------------------------------------------------------
(* C1: the transition raster after the encoder loop.                       *)

\* C1: while the loop runs a cell holds either 0 or value1*100 + value2 of
\* its own pair of codes (no other pair writes it, so the order of the
\* pairs does not matter), and once the loop has finished every cell whose
\* 2014 and 2024 codes are in the catalog holds exactly value1*100 + value2.
C1_TransitionRaster ==
    /\ pc = "encode" =>
          \A c \in Cells :
              changeMap[c] \in {0, lulc2014[c] * 100 + lulc2024[c]}
    /\ pc \in After("encode") =>
          \A c \in Cells :
              (lulc2014[c] \in 1..K /\ lulc2024[c] \in 1..K) =>
                  changeMap[c] = lulc2014[c] * 100 + lulc2024[c]

\* the loop has finished over a from-raster of all 1s and a to-raster of
\* all 2s, and the transition raster is constant 102
C1_Witness ==
    /\ pc = "mask"
    /\ \A c \in Cells : lulc2014[c] = 1 /\ lulc2024[c] = 2 /\ changeMap[c] = 102

---------------------------------------------------------------------------
(* C2: the encoding is injective and decodable for catalogs below 100.     *)

\* C2: for a catalog of size K < 100, every entry of changeValues decodes
\* (div 100, mod 100) to the pair of codes it was built from, the value
\* pushed last differs from every earlier one, and the finished list
\* contains no duplicates.
C2_EncodingInjective ==
    K < 100 =>
        LET n == Len(changeValues)
        IN  /\ \A j \in 1..n :
                  /\ changeValues[j] \div 100 = ((j - 1) \div K) + 1
                  /\ changeValues[j] % 100 = ((j - 1) % K) + 1
            /\ \A j \in 1..n : changeValues[j] = changeValues[n] => j = n
            /\ pc \in After("encode") =>
                  Cardinality({changeValues[j] : j \in 1..n}) = K * K

\* the loop has finished for the catalog of the script: 36 values, the
\* last one 606, which decodes to (6, 6)
C2_Witness ==
    /\ K = 6
    /\ pc = "mask"
    /\ Len(changeValues) = 36
    /\ changeValues[36] = 606
    /\ changeValues[36] \div 100 = 6
    /\ changeValues[36] % 100 = 6

---------------------------------------------------------------------------
(* C3: catalogs of 100 classes or more.                                    *)

\* C3: with a catalog of K >= 100 classes the encoder fails before it
\* produces any transition value or label.
C3_RejectsLargeCatalog ==
    K >= 100 => (changeValues = <<>> /\ changeNames = <<>> /\ pc \notin After("encode"))

---------------------------------------------------------------------------
(* C4: the transition catalog.                                             *)

\* C4: changeValues and changeNames always have the same length; after the
\* loop the catalog built from them has exactly K*K entries and the entry
\* of v1*100 + v2 is name(v1) + " -> " + name(v2).
C4_TransitionCatalog ==
    /\ Len(changeValues) = Len(changeNames)
    /\ pc \in After("encode") => Len(changeValues) = K * K
    /\ pc \in {"mask", "dict", "assemble"} =>
          LET dict == changeDict
          IN  /\ Cardinality(DOMAIN dict) = K * K
              /\ \A v1 \in 1..K, v2 \in 1..K :
                    /\ ToString(v1 * 100 + v2) \in DOMAIN dict
                    /\ dict[ToString(v1 * 100 + v2)] =
                          ProgramNames[v1] \o " -> " \o ProgramNames[v2]

\* the dictionary has been printed and the entry of 102 reads
\* "Waterbody -> Dense forest"
C4_Witness ==
    /\ pc = "assemble"
    /\ Len(changeValues) = 36
    /\ changeDict["102"] = "Waterbody -> Dense forest"

---------------------------------------------------------------------------
(* C5: the train/test split.                                               *)

\* the number of records of coll that satisfy P
CountOf(coll, P(_)) == Cardinality({i \in 1..Len(coll) : P(coll[i])})

\* C5: after the split every sample record is in exactly one partition:
\* train holds the records with random <= 0.8, test those with random
\* > 0.8, and the two counts add up to the sample size; the printed counts
\* are these counts.
C5_SplitPartition ==
    pc \in After("split") =>
        /\ Len(train) + Len(test) = Len(sample)
        /\ \A i \in 1..Len(train) : train[i].random <= 8
        /\ \A i \in 1..Len(test) : test[i].random > 8
        /\ Len(train) = CountOf(sample, LAMBDA r : r.random <= 8)
        /\ Len(test) = CountOf(sample, LAMBDA r : r.random > 8)
        /\ \A i \in 1..Len(sample) :
              (\E j \in 1..Len(train) : train[j] = sample[i])
                  # (\E j \in 1..Len(test) : test[j] = sample[i])
        /\ \E i \in 1..Len(printed) :
              /\ printed[i] = "Sample train: " \o ToString(Len(train))
              /\ i < Len(printed)
              /\ printed[i + 1] = "Sample test: " \o ToString(Len(test))

\* the split has run on a sample with one record at exactly 0.8 and one
\* above it: one record in train, one in test
C5_Witness ==
    /\ pc = "train"
    /\ Len(sample) >= 2
    /\ \E i \in 1..Len(sample) : sample[i].random = 8
    /\ \E i \in 1..Len(sample) : sample[i].random = 9
    /\ Len(train) >= 1
    /\ Len(test) >= 1

---------------------------------------------------------------------------
(* C6: identical from- and to-rasters.                                     *)

\* C6: when the two rasters are identical the transition band of the
\* training image holds v*100 + v at every cell, and every cell of the
\* displayed 'Land cover change map' is masked.
C6_ChangedOnlyDisplay ==
    (lulc2014 = lulc2024) =>
        /\ pc \in After("assemble") =>
              \A c \in Cells : variables[c].transition = lulc2014[c] * 100 + lulc2014[c]
        /\ pc \in After("mask") =>
              \A c \in Cells : LayerImage("Land cover change map")[c] = NoData

---------------------------------------------------------------------------
(* C7: the year band and the bands of the forecast image.                  *)

\* C7: the year band of the training image is 2024 where the 2014 and 2024
\* codes differ and 0 elsewhere; the year band of the forecast image is
\* 2033 on the same cells and 0 elsewhere; the forecast image has the bands
\* start, transition, elevation, year and no end band.
C7_YearBand ==
    /\ pc \in After("assemble") =>
          \A c \in Cells :
              variables[c].year = (IF lulc2014[c] # lulc2024[c] THEN 2024 ELSE 0)
    /\ pc \in After("assemble2") =>
          /\ \A c \in Cells :
                /\ variables2025[c].year =
                      (IF lulc2024[c] # lulc2014[c] THEN 2033 ELSE 0)
                /\ DOMAIN variables2025[c] =
                      {"start", "transition", "elevation", "year"}
          /\ {c \in Cells : variables2025[c].year = 2033}
                = {c \in Cells : variables[c].year = 2024}

\* the forecast image has been assembled over a raster pair with a changed
\* and an unchanged cell
C7_Witness ==
    /\ pc = "predict"
    /\ \E c \in Cells : lulc2014[c] # lulc2024[c] /\ variables2025[c].year = 2033
    /\ \E c \in Cells : lulc2014[c] = lulc2024[c] /\ variables2025[c].year = 0

---------------------------------------------------------------------------
(* C8: the area records.                                                   *)

\* the records of lulcAreafeatures that carry the given year
RecordsOf(year) ==
    SelectSeq(lulcAreafeatures, LAMBDA f : f.year = year)

\* the hectares of the cells of image that hold class cl
ClassHectares(image, cl) ==
    SumOver([c \in Cells |-> pixelArea(c) \div 10000],
            {c \in Cells : image[c] = cl})

\* the records of one epoch: one per class present in its raster, with the
\* catalog name of the class and the summed hectares; together they cover
\* the region
EpochRecordsRight(year, image) ==
    LET recs == RecordsOf(year)
        present == {image[c] : c \in Cells}
    IN  /\ {recs[i].class : i \in 1..Len(recs)} = present
        /\ Len(recs) = Cardinality(present)
        /\ \A i \in 1..Len(recs) :
              /\ recs[i].class \in 1..K
              /\ recs[i].LULC = ProgramNames[recs[i].class]
              /\ recs[i].area = ClassHectares(image, recs[i].class)
              /\ recs[i].area > 0
        /\ SumOver([i \in 1..Len(recs) |-> recs[i].area], 1..Len(recs))
              = SumOver([c \in Cells |-> pixelArea(c) \div 10000], Cells)

\* C8: the area records come in the order 2014, 2024, 2033; each epoch has
\* exactly one record per class present in its raster, with the year, the
\* name names[code-1] and the summed hectares of the class; the areas of
\* one epoch add up to the area of the region, for the predicted raster too.
C8_AreaRecords ==
    pc \in After("areas") =>
        /\ lulcAreafeatures =
              RecordsOf(2014) \o RecordsOf(2024) \o RecordsOf(2033)
        /\ EpochRecordsRight(2014, lulc2014)
        /\ EpochRecordsRight(2024, lulc2024)
        /\ EpochRecordsRight(2033, lulc2033)

\* the areas have been aggregated over a 2014 raster with two classes and
\* a prediction with one class
C8_Witness ==
    /\ pc = "chart"
    /\ Len(RecordsOf(2014)) = 2
    /\ Len(RecordsOf(2033)) = 1
    /\ \E i \in 1..Len(lulcAreafeatures) :
          lulcAreafeatures[i].LULC = "Barren land"

---------------------------------------------------------------------------
(* C9: the order of the steps and the outputs of a failed run.             *)

\* the labels of the layers added so far
LayerLabels == [i \in 1..Len(layers) |-> layers[i].label]

\* all layer labels of a run, in the order they are added
AllLayerLabels ==
    <<"LULC 2014", "LULC 2024", "Land cover change map", "LULC 2033 Prediction">>

\* s is a prefix of t
IsPrefix(s, t) == Len(s) <= Len(t) /\ s = SubSeq(t, 1, Len(s))

\* the number of layers and of printed values that exist when the script
\* is at statement p
LayersAt(p) ==
    IF p \in {"legend", "load", "layers"} THEN 0
    ELSE IF p \in {"encode", "mask"} THEN 2
    ELSE IF p \in {"areas", "chart", "done"} THEN 4
    ELSE 3

PrintedAt(p) ==
    IF p \in {"legend", "load", "layers", "encode", "mask", "dict"} THEN 0
    ELSE IF p \in {"assemble", "sample", "split"} THEN 1
    ELSE IF p \in {"train", "evaluate"} THEN 3
    ELSE IF p = "done" THEN 7
    ELSE 6

\* the statement that follows p in program order
Successor(p) ==
    LET at == CHOOSE i \in 1..Len(Statements) : Statements[i] = p
    IN  Statements[at + 1]

\* C9 as stated: a run emits output only in the terminal state of
\* successful rendering: before it, and in a run that an external call has
\* aborted, there is no legend, no map layer and no printed value.
C9_NoPartialOutput ==
    pc # "done" => (~legendShown /\ layers = <<>> /\ printed = <<>>)

\* C9 as amended: the statements run in program order, each once (the
\* encoder's iterations aside), never back to an earlier one; the outputs
\* are emitted as the run proceeds and are never taken back; a failing
\* external call ends the run at that statement, with the outputs emitted
\* so far and without the chart.
C9_LinearPassWithOutputs ==
    /\ [](/\ legendShown <=> pc # "legend"
          /\ IsPrefix(LayerLabels, AllLayerLabels)
          /\ pc # "aborted" =>
                (Len(layers) = LayersAt(pc) /\ Len(printed) = PrintedAt(pc))
          /\ pc = "aborted" =>
                (Len(layers) \in {0, 3, 4} /\ Len(printed) \in {0, 1, 3, 6}))
    /\ [][/\ pc # "aborted"
          /\ pc # "done"
          /\ \/ pc' = Successor(pc)
             \/ pc' = pc /\ pc = "encode"
             \/ pc' = "aborted" /\ pc \in {"load", "sample", "train", "predict", "areas"}
          /\ IsPrefix(layers, layers')
          /\ IsPrefix(printed, printed')
          /\ pc' = "aborted" => (layers' = layers /\ printed' = printed)]_vars

\* the sampling call has failed: the run is aborted with the legend, three
\* layers and the printed dictionary already emitted
C9_Witness ==
    /\ pc = "aborted"
    /\ legendShown
    /\ Len(layers) = 3
    /\ Len(printed) = 1
    /\ sample = <<>>

---------------------------------------------------------------------------
(* C10: the target is a function of the predictors.                        *)

\* the predictor fields of a record
Predictors(r) == <<r.start, r.transition, r.elevation, r.year>>

\* C10: every sampled record has transition = start*100 + end, so end is
\* transition mod 100 and two records with equal predictors have equal end;
\* in the forecast image start is the 2024 code, so start = transition mod
\* 100 everywhere and start = transition div 100 exactly at the cells whose
\* 2014 and 2024 codes are equal.
C10_TargetDetermined ==
    /\ pc \in After("sample") =>
          /\ \A i \in 1..Len(sample) :
                /\ sample[i].transition = sample[i].start * 100 + sample[i].end
                /\ sample[i].end = sample[i].transition % 100
          /\ \A i \in 1..Len(sample), j \in 1..Len(sample) :
                Predictors(sample[i]) = Predictors(sample[j])
                    => sample[i].end = sample[j].end
    /\ pc \in After("assemble2") =>
          \A c \in Cells :
              /\ variables2025[c].start = lulc2024[c]
              /\ variables2025[c].start = variables2025[c].transition % 100
              /\ (variables2025[c].start = variables2025[c].transition \div 100)
                    <=> (lulc2014[c] = lulc2024[c])

\* the forecast image has been assembled after sampling every cell, over a
\* raster pair with a changed cell
C10_Witness ==
    /\ pc = "predict"
    /\ Len(sample) = NumCells
    /\ \E c \in Cells :
          /\ lulc2014[c] # lulc2024[c]
          /\ variables2025[c].start # variables2025[c].transition \div 100

====
